---- MODULE Spec2Model ----
(***************************************************************************)
(* A model of src/src/main.rs, the PDF -> chunks -> embeddings -> Qdrant   *)
(* uploader.  main is one sequential async function; the model cuts it at  *)
(* its I/O points (argument parsing, extraction, chunking, the connection  *)
(* loop, list/delete/create collection, model initialisation, embedding,   *)
(* point building, and each batch of the blocking batched upsert).         *)
(*                                                                         *)
(* Strings the program inspects (arguments, operator input, paths,         *)
(* collection names) are sequences of one-character strings, so that       *)
(* trim, to_lowercase, parse and split are computed, not assumed.          *)
(***************************************************************************)
EXTENDS Integers, Sequences, FiniteSets, TLC

VARIABLES
    store,            \* the vector store: collection name -> collection
    reachable,        \* whether the store answers at localhost:6334
    run,              \* which invocation of the program this is (1 = first)
    pc,               \* position of main
    args,             \* env::args()
    chunk_size,       \* line 17
    debug,            \* line 18
    collection_name,  \* line 19
    text,             \* line 53
    chunks,           \* line 73
    attempts,         \* failed connection probes of this run (saturating)
    input,            \* the last line read from stdin (lines 88, 123)
    exists,           \* line 115
    should_create,    \* line 117
    embeddings,       \* line 161
    points,           \* line 171
    sent,             \* points acknowledged by the store in the batched upsert
    ops,              \* the store operations this run has issued, in order
    uploaded,         \* the count printed at line 184, NoCount before that
    failedAt,         \* the stage whose error ended the run, "none" otherwise
    pre,              \* the store as it was when this run started
    prev,             \* what the previous run did (NoPrev in the first run)
    other             \* a second invocation of the program, running meanwhile

vars == <<store, reachable, run, pc, args, chunk_size, debug, collection_name,
          text, chunks, attempts, input, exists, should_create, embeddings,
          points, sent, ops, uploaded, failedAt, pre, prev, other>>

---------------------------------------------------------------------------
(* Bounds of the model. *)

\* Tokens in the extracted text of the document.
TextLen == 2600
\* Failed connection probes are counted up to this many.
MaxAttempts == 2
\* Invocations of the program against the same store, one after the other.
MaxRuns == 2
\* Invocations of the program that run while this one does, one after the
\* other.
MaxRivalRuns == 2

(* Program constants. *)

DefaultChunkSize == 200
FallbackChunkSize == 500
MinArgs == 2
MaxArgs == 6
VectorSize == 384
EmbedDim == 384
BatchSize == 6

---------------------------------------------------------------------------
(* Character strings. *)

S_debug == <<"-", "-", "d", "e", "b", "u", "g">>
S_collection == <<"-", "-", "c", "o", "l", "l", "e", "c", "t", "i", "o", "n">>
S_test == <<"t", "e", "s", "t">>
S_n == <<"n">>

UpperChars == <<"A", "B", "C", "D", "E", "F", "G", "H", "I", "J", "K", "L", "M",
                "N", "O", "P", "Q", "R", "S", "T", "U", "V", "W", "X", "Y", "Z">>
LowerChars == <<"a", "b", "c", "d", "e", "f", "g", "h", "i", "j", "k", "l", "m",
                "n", "o", "p", "q", "r", "s", "t", "u", "v", "w", "x", "y", "z">>
DigitChars == <<"0", "1", "2", "3", "4", "5", "6", "7", "8", "9">>

IndexOf(c, seq) == CHOOSE i \in 1..Len(seq) : seq[i] = c

IsUpper(c) == \E i \in 1..Len(UpperChars) : UpperChars[i] = c
IsDigit(c) == \E i \in 1..Len(DigitChars) : DigitChars[i] = c
IsSpace(c) == c \in {" ", "\n", "\t", "\r"}

\* str::to_lowercase
ToLowercase(s) ==
    [i \in 1..Len(s) |->
        IF IsUpper(s[i]) THEN LowerChars[IndexOf(s[i], UpperChars)] ELSE s[i]]

RECURSIVE TrimStart(_)
TrimStart(s) ==
    IF s # <<>> /\ IsSpace(Head(s)) THEN TrimStart(Tail(s)) ELSE s

RECURSIVE TrimEnd(_)
TrimEnd(s) ==
    IF s # <<>> /\ IsSpace(s[Len(s)]) THEN TrimEnd(SubSeq(s, 1, Len(s) - 1)) ELSE s

\* str::trim
Trim(s) == TrimEnd(TrimStart(s))

RECURSIVE DigitsValue(_)
DigitsValue(s) ==
    IF s = <<>> THEN 0
    ELSE 10 * DigitsValue(SubSeq(s, 1, Len(s) - 1))
         + (IndexOf(s[Len(s)], DigitChars) - 1)

\* str::parse::<usize>: an optional '+', then one or more decimal digits.
\* (The inputs of the model stay far below usize::MAX, so overflow is not drawn.)
ParseUsize(s) ==
    LET d == IF s # <<>> /\ Head(s) = "+" THEN Tail(s) ELSE s
    IN  IF d # <<>> /\ \A i \in 1..Len(d) : IsDigit(d[i])
        THEN [ok |-> TRUE, val |-> DigitsValue(d)]
        ELSE [ok |-> FALSE, val |-> 0]

RECURSIVE LastSegmentFrom(_, _)
LastSegmentFrom(s, acc) ==
    IF s = <<>> THEN acc
    ELSE IF Head(s) = "/" THEN LastSegmentFrom(Tail(s), <<>>)
    ELSE LastSegmentFrom(Tail(s), Append(acc, Head(s)))

\* path.split('/').last().unwrap_or("unknown"): split always yields at least
\* one segment, so the fallback is never taken.
FileNameOf(path) == LastSegmentFrom(path, <<>>)

---------------------------------------------------------------------------
(* Argument parsing, lines 16-45. *)

\* The while loop of lines 21-38; i is the 0-based index into args.
RECURSIVE ScanArgs(_, _, _, _)
ScanArgs(a, i, dbg, name) ==
    IF i >= Len(a) THEN [rejected |-> FALSE, debug |-> dbg, name |-> name]
    ELSE IF a[i + 1] = S_debug THEN ScanArgs(a, i + 1, TRUE, name)
    ELSE IF a[i + 1] = S_collection THEN
        IF i + 1 < Len(a)
        THEN IF a[i + 2] = <<>>
             THEN [rejected |-> TRUE, debug |-> dbg, name |-> a[i + 2]]
             ELSE ScanArgs(a, i + 2, dbg, a[i + 2])
        ELSE ScanArgs(a, i + 1, dbg, name)
    ELSE ScanArgs(a, i + 1, dbg, name)

\* A variant that accepts any number of arguments from two on.
UsageRejected_NoUpper(a) == Len(a) < MinArgs

\* Line 40.
UsageRejected(a) == Len(a) < MinArgs \/ Len(a) > MaxArgs

\* Lines 17 and 43-44: the chunk size of an accepted argument list.
ChunkSizeArg(a) ==
    IF Len(a) >= 3 /\ a[3] # S_debug /\ a[3] # S_collection
    THEN IF ParseUsize(a[3]).ok THEN ParseUsize(a[3]).val ELSE FallbackChunkSize
    ELSE DefaultChunkSize

---------------------------------------------------------------------------
(* The collaborators. *)

Min(a, b) == IF a < b THEN a ELSE b

\* pdf_extract::extract_text: the text of the document, as its token count.
ExtractedText(path) == [doc |-> path, tokens |-> TextLen]

\* TextSplitter::chunks: consecutive slices of at most `budget` tokens, in
\* order, covering the text.
Chunks(t, budget) ==
    LET n == (t.tokens + budget - 1) \div budget
    IN  [k \in 1..n |->
            [doc |-> t.doc, lo |-> (k - 1) * budget + 1,
             hi |-> Min(k * budget, t.tokens)]]

\* TextEmbedding::embed: m vectors of the model's dimension each; `of` is the
\* 0-based position of the vector in the engine's answer.
Embeddings(m) == [j \in 1..m |-> [dims |-> EmbedDim, of |-> j - 1]]

\* How many vectors the engine may answer for n chunks.
VectorCounts(n) == {m \in {n - 1, n, n + 1} : m >= 0}

Absent == [exists |-> FALSE, size |-> 0, distance |-> "none", points |-> {}]

\* A variant in which the delete is acknowledged and does nothing.
StoreDelete_Noop(s, name) == s

\* delete_collection
StoreDelete(s, name) == [s EXCEPT ![name] = Absent]

\* A variant that creates the collection with another distance.
StoreCreate_Dot(s, name) ==
    [s EXCEPT ![name] = [exists |-> TRUE, size |-> VectorSize,
                         distance |-> "Dot", points |-> {}]]

\* A variant that always creates the default collection.
StoreCreate_DefaultName(s, name) ==
    [s EXCEPT ![S_test] = [exists |-> TRUE, size |-> VectorSize,
                           distance |-> "Cosine", points |-> {}]]

\* create_collection with the parameters of lines 138-148
StoreCreate(s, name) ==
    [s EXCEPT ![name] = [exists |-> TRUE, size |-> VectorSize,
                         distance |-> "Cosine", points |-> {}]]

\* A variant in which the store creates the collection again.
CreateAccepted_Always(s, name) == TRUE

\* The store refuses to create a collection that is there.
CreateAccepted(s, name) == ~s[name].exists

\* The store refuses points for a missing collection or of another dimension.
UpsertAccepted(s, name, batch) ==
    /\ s[name].exists
    /\ \A i \in 1..Len(batch) : batch[i].vector.dims = s[name].size

\* A variant in which a request replaces what the collection held.
StoreUpsert_Replace(s, name, batch) ==
    [s EXCEPT ![name].points = {batch[i] : i \in 1..Len(batch)}]

\* upsert: insert, or overwrite the point of the same id.
StoreUpsert(s, name, batch) ==
    LET new == {batch[i] : i \in 1..Len(batch)}
        ids == {p.id : p \in new}
    IN  [s EXCEPT ![name].points = {q \in @ : q.id \notin ids} \cup new]

---------------------------------------------------------------------------
(* Point building, lines 170-179. *)

\* A variant that numbers the points of every run from the same origin.
NewId_Index(r, i) == <<0, i>>

\* A variant that draws one identifier per run instead of one per point.
NewId_Once(r, i) == <<r, 0>>

\* Uuid::new_v4(): an identifier no other point has (run, position).
NewId(r, i) == <<r, i>>

\* A variant that numbers the chunks from one.
BuildPoint_OneBased(r, file_name, cs, i, embedding) ==
    [id |-> NewId(r, i),
     vector |-> embedding,
     payload |-> [file_name |-> file_name, text |-> cs[i + 1],
                  chunk_number |-> i + 1]]

BuildPoint(r, file_name, cs, i, embedding) ==
    [id |-> NewId(r, i),
     vector |-> embedding,
     payload |-> [file_name |-> file_name, text |-> cs[i + 1], chunk_number |-> i]]

\* embeddings.iter().enumerate().map(...).collect(); chunks[i] panics when
\* there are more embeddings than chunks.
BuildPanics(cs, es) == Len(es) > Len(cs)

BuildPoints(r, path, cs, es) ==
    [j \in 1..Len(es) |-> BuildPoint(r, FileNameOf(path), cs, j - 1, es[j])]

\* The next batch of upsert_points_batch_blocking(.., points, None, 6): the
\* whole list in one request when it is shorter than the batch size, else
\* consecutive slices of the batch size.
NextBatchEnd(ps, done) ==
    IF Len(ps) < BatchSize THEN Len(ps) ELSE Min(done + BatchSize, Len(ps))

---------------------------------------------------------------------------
(* The inputs the model draws. *)

Prog == <<"p">>
Doc == <<"d", "/", "a">>
S_1000 == <<"1", "0", "0", "0">>
S_x == <<"x">>
S_c == <<"c">>

\* Argument lists: too few, the defaults, a numeric and a non-numeric chunk
\* size, the flags in several positions, an empty collection name, too many.
Argvs ==
    { <<Prog>>,
      <<Prog, Doc>>,
      <<Prog, Doc, S_1000>>,
      <<Prog, Doc, S_x>>,
      <<Prog, Doc, S_debug>>,
      <<Prog, Doc, S_1000, S_debug>>,
      <<Prog, Doc, S_debug, S_1000>>,
      <<Prog, Doc, S_collection, S_c>>,
      <<Prog, Doc, S_collection, <<>>>>,
      <<Prog, Doc, S_collection>>,
      <<Prog, Doc, S_1000, S_debug, S_collection, S_c, S_debug>> }

\* Every collection name a run can end up with.
CollNames == {S_test, S_c}

\* Lines the operator can type (read_line keeps the newline; <<>> is end of
\* input), and IoError for a failed read.
IoError == <<"E", "I", "O">>
StdinLines ==
    { <<"n", "\n">>, <<" ", "N", " ", "\n">>, <<"y", "\n">>, <<"\n">>,
      <<"n", "o", "\n">>, <<>> }

OldPoint(d) ==
    [id |-> <<0, 0>>,
     vector |-> [dims |-> d, of |-> 0],
     payload |-> [file_name |-> <<"o">>,
                  text |-> [doc |-> <<"o">>, lo |-> 1, hi |-> 1],
                  chunk_number |-> 0]]

\* What the default collection can be before the first run: absent, empty,
\* holding a point of the run's dimension, or created with another schema.
InitCollections ==
    { Absent,
      [exists |-> TRUE, size |-> VectorSize, distance |-> "Cosine", points |-> {}],
      [exists |-> TRUE, size |-> VectorSize, distance |-> "Cosine",
       points |-> {OldPoint(VectorSize)}],
      [exists |-> TRUE, size |-> 2 * VectorSize, distance |-> "Dot",
       points |-> {OldPoint(2 * VectorSize)}] }

NoText == [doc |-> <<>>, tokens |-> 0]
NoCount == 0 - 1
NoPrev == [done |-> FALSE, args |-> <<>>, name |-> <<>>, chunk_size |-> 0,
           chunks |-> 0, points |-> 0]

Terminal == {"done", "failed", "rejected", "panicked"}

\* The second invocation before it is started: where it is, which of its
\* invocations this is, and what its invocations have done to the store.
RivalIdle ==
    [pc |-> "idle", runs |-> 0, created |-> FALSE, deleted |-> FALSE,
     rejected |-> FALSE]

---------------------------------------------------------------------------
(* The state machine. *)

\* The locals of main as they are declared (lines 17-19, 117).
FreshLocals(a) ==
    /\ args' = a
    /\ pc' = "start"
    /\ chunk_size' = DefaultChunkSize
    /\ debug' = FALSE
    /\ collection_name' = S_test
    /\ text' = NoText
    /\ chunks' = <<>>
    /\ attempts' = 0
    /\ input' = <<>>
    /\ exists' = FALSE
    /\ should_create' = TRUE
    /\ embeddings' = <<>>
    /\ points' = <<>>
    /\ sent' = 0
    /\ ops' = <<>>
    /\ uploaded' = NoCount
    /\ failedAt' = "none"

Init ==
    /\ store \in [CollNames -> InitCollections]
    /\ store[S_c] = Absent
    /\ reachable \in BOOLEAN
    /\ run = 1
    /\ args \in Argvs
    /\ pc = "start"
    /\ chunk_size = DefaultChunkSize
    /\ debug = FALSE
    /\ collection_name = S_test
    /\ text = NoText
    /\ chunks = <<>>
    /\ attempts = 0
    /\ input = <<>>
    /\ exists = FALSE
    /\ should_create = TRUE
    /\ embeddings = <<>>
    /\ points = <<>>
    /\ sent = 0
    /\ ops = <<>>
    /\ uploaded = NoCount
    /\ failedAt = "none"
    /\ pre = store
    /\ prev = NoPrev
    /\ other = RivalIdle

Op(kind, name, ok, from, to) ==
    [op |-> kind, name |-> name, ok |-> ok, from |-> from, to |-> to]

\* A variant that ignores the error and carries on to the success report.
Fail_Swallow(stage) ==
    /\ pc' = "uploaded"
    /\ failedAt' = stage

\* A variant that notes the error and tries the same step again.
Fail_Retry(stage) ==
    /\ pc' = pc
    /\ failedAt' = stage

\* `?`: the error of a stage returns from main.
Fail(stage) ==
    /\ pc' = "failed"
    /\ failedAt' = stage

\* Lines 16-50.
ParseArgs ==
    /\ pc = "start"
    /\ LET sc == ScanArgs(args, 0, debug, collection_name)
       IN  /\ debug' = sc.debug
           /\ collection_name' = sc.name
           /\ IF sc.rejected \/ UsageRejected(args)
              THEN pc' = "rejected" /\ UNCHANGED chunk_size
              ELSE pc' = "extract" /\ chunk_size' = ChunkSizeArg(args)
    /\ UNCHANGED <<store, reachable, run, args, text, chunks, attempts, input,
                   exists, should_create, embeddings, points, sent, ops,
                   uploaded, failedAt, pre, prev, other>>

\* Lines 52-53.
Extract ==
    /\ pc = "extract"
    /\ \/ text' = ExtractedText(args[2]) /\ pc' = "chunk" /\ UNCHANGED failedAt
       \/ Fail("extract") /\ UNCHANGED text
    /\ UNCHANGED <<store, reachable, run, args, chunk_size, debug,
                   collection_name, chunks, attempts, input, exists,
                   should_create, embeddings, points, sent, ops, uploaded,
                   pre, prev, other>>

\* Lines 68-75.
Chunk ==
    /\ pc = "chunk"
    /\ chunks' = Chunks(text, chunk_size)
    /\ pc' = "connect"
    /\ UNCHANGED <<store, reachable, run, args, chunk_size, debug,
                   collection_name, text, attempts, input, exists,
                   should_create, embeddings, points, sent, ops, uploaded,
                   failedAt, pre, prev, other>>

\* Lines 84-86: the condition of the connection loop.
Probe ==
    /\ pc = "connect"
    /\ IF reachable
       THEN /\ pc' = "list"
            /\ ops' = Append(ops, Op("list", <<"*">>, TRUE, 0, 0))
            /\ UNCHANGED attempts
       ELSE /\ pc' = "ask_start"
            /\ attempts' = Min(attempts + 1, MaxAttempts)
            /\ UNCHANGED ops
    /\ UNCHANGED <<store, reachable, run, args, chunk_size, debug,
                   collection_name, text, chunks, input, exists,
                   should_create, embeddings, points, sent, uploaded,
                   failedAt, pre, prev, other>>

\* A variant that forgets trim.
AnswersNo_NoTrim(line) == ToLowercase(line) = S_n

\* A variant that forgets to_lowercase.
AnswersNo_NoLower(line) == Trim(line) = S_n

\* input.trim().to_lowercase() != "n", lines 90 and 125 (negated there).
AnswersNo(line) == ToLowercase(Trim(line)) = S_n

\* Lines 87-102: the body of the connection loop.
AnswerStart ==
    /\ pc = "ask_start"
    /\ \E line \in StdinLines \cup {IoError} :
        IF line = IoError
        THEN Fail("prompt_start") /\ UNCHANGED <<input, reachable>>
        ELSE /\ input' = line
             /\ IF ~AnswersNo(line)
                THEN \* docker run, then a new client; docker may not be there
                     \/ /\ reachable' \in BOOLEAN
                        /\ pc' = "connect"
                        /\ UNCHANGED failedAt
                     \/ /\ pc' = "panicked"
                        /\ failedAt' = "docker"
                        /\ UNCHANGED reachable
                ELSE Fail("connect") /\ UNCHANGED reachable
    /\ UNCHANGED <<store, run, args, chunk_size, debug, collection_name, text,
                   chunks, attempts, exists, should_create, embeddings,
                   points, sent, ops, uploaded, pre, prev, other>>

\* Lines 111-117.
ListCollections ==
    /\ pc = "list"
    /\ \/ /\ ops' = Append(ops, Op("list", <<"*">>, TRUE, 0, 0))
          /\ exists' = store[collection_name].exists
          /\ pc' = IF exists' THEN "ask_clear" ELSE "create"
          /\ UNCHANGED failedAt
       \/ /\ ops' = Append(ops, Op("list", <<"*">>, FALSE, 0, 0))
          /\ Fail("list")
          /\ UNCHANGED exists
    /\ UNCHANGED <<store, reachable, run, args, chunk_size, debug,
                   collection_name, text, chunks, attempts, input,
                   should_create, embeddings, points, sent, uploaded, pre,
                   prev, other>>

\* Whether the answer to the prompt of line 122 keeps the collection.
KeepsCollection(line) == AnswersNo(line)

\* Lines 119-128: the prompt; the delete itself is the next step.
AnswerClear ==
    /\ pc = "ask_clear"
    /\ \E line \in StdinLines \cup {IoError} :
        IF line = IoError
        THEN Fail("prompt_clear") /\ UNCHANGED <<input, should_create>>
        ELSE /\ input' = line
             /\ UNCHANGED failedAt
             /\ IF KeepsCollection(line)
                THEN should_create' = FALSE /\ pc' = "model"
                ELSE pc' = "delete" /\ UNCHANGED should_create
    /\ UNCHANGED <<store, reachable, run, args, chunk_size, debug,
                   collection_name, text, chunks, attempts, exists,
                   embeddings, points, sent, ops, uploaded, pre, prev, other>>

\* Lines 129-131.
DeleteCollection ==
    /\ pc = "delete"
    /\ \/ /\ ops' = Append(ops, Op("delete", collection_name, TRUE, 0, 0))
          /\ store' = StoreDelete(store, collection_name)
          /\ pc' = "create"
          /\ UNCHANGED failedAt
       \/ /\ ops' = Append(ops, Op("delete", collection_name, FALSE, 0, 0))
          /\ Fail("delete")
          /\ UNCHANGED store
    /\ UNCHANGED <<reachable, run, args, chunk_size, debug, collection_name,
                   text, chunks, attempts, input, exists, should_create,
                   embeddings, points, sent, uploaded, pre, prev, other>>

\* Lines 135-150.
CreateCollection ==
    /\ pc = "create"
    /\ \/ /\ CreateAccepted(store, collection_name)
          /\ ops' = Append(ops, Op("create", collection_name, TRUE, 0, 0))
          /\ store' = StoreCreate(store, collection_name)
          /\ pc' = "model"
          /\ UNCHANGED failedAt
       \/ /\ ops' = Append(ops, Op("create", collection_name, FALSE, 0, 0))
          /\ Fail("create")
          /\ UNCHANGED store
    /\ UNCHANGED <<reachable, run, args, chunk_size, debug, collection_name,
                   text, chunks, attempts, input, exists, should_create,
                   embeddings, points, sent, uploaded, pre, prev, other>>

\* Lines 153-157.
InitModel ==
    /\ pc = "model"
    /\ \/ pc' = "embed" /\ UNCHANGED failedAt
       \/ Fail("model")
    /\ UNCHANGED <<store, reachable, run, args, chunk_size, debug,
                   collection_name, text, chunks, attempts, input, exists,
                   should_create, embeddings, points, sent, ops, uploaded,
                   pre, prev, other>>

\* Lines 160-162.
Embed ==
    /\ pc = "embed"
    /\ \/ /\ \E m \in VectorCounts(Len(chunks)) : embeddings' = Embeddings(m)
          /\ pc' = "build"
          /\ UNCHANGED failedAt
       \/ Fail("embed") /\ UNCHANGED embeddings
    /\ UNCHANGED <<store, reachable, run, args, chunk_size, debug,
                   collection_name, text, chunks, attempts, input, exists,
                   should_create, points, sent, ops, uploaded, pre, prev,
                   other>>

\* Lines 170-179.
Build ==
    /\ pc = "build"
    /\ IF BuildPanics(chunks, embeddings)
       THEN pc' = "panicked" /\ failedAt' = "build" /\ UNCHANGED points
       ELSE /\ points' = BuildPoints(run, args[2], chunks, embeddings)
            /\ pc' = "upsert"
            /\ UNCHANGED failedAt
    /\ UNCHANGED <<store, reachable, run, args, chunk_size, debug,
                   collection_name, text, chunks, attempts, input, exists,
                   should_create, embeddings, sent, ops, uploaded, pre, prev,
                   other>>

\* Lines 181-183: one request of the batched upsert, awaited.
UpsertBatch ==
    /\ pc = "upsert"
    /\ LET to == NextBatchEnd(points, sent)
           batch == SubSeq(points, sent + 1, to)
       IN  \/ /\ UpsertAccepted(store, collection_name, batch)
              /\ ops' = Append(ops, Op("upsert", collection_name, TRUE, sent + 1, to))
              /\ store' = StoreUpsert(store, collection_name, batch)
              /\ sent' = to
              /\ pc' = IF to = Len(points) THEN "uploaded" ELSE "upsert"
              /\ UNCHANGED failedAt
           \/ /\ ops' = Append(ops, Op("upsert", collection_name, FALSE, sent + 1, to))
              /\ Fail("upsert")
              /\ UNCHANGED <<store, sent>>
    /\ UNCHANGED <<reachable, run, args, chunk_size, debug, collection_name,
                   text, chunks, attempts, input, exists, should_create,
                   embeddings, points, uploaded, pre, prev, other>>

\* Lines 184-187.
ReportSuccess ==
    /\ pc = "uploaded"
    /\ uploaded' = Len(points)
    /\ pc' = "done"
    /\ UNCHANGED <<store, reachable, run, args, chunk_size, debug,
                   collection_name, text, chunks, attempts, input, exists,
                   should_create, embeddings, points, sent, ops, failedAt,
                   pre, prev, other>>

\* What a finished run leaves for the next one to be compared with.
Summary ==
    IF pc = "done"
    THEN [done |-> TRUE, args |-> args, name |-> collection_name,
          chunk_size |-> chunk_size, chunks |-> Len(chunks),
          points |-> Len(points)]
    ELSE NoPrev

\* The program is invoked again, against the store the last run left.
StartRun ==
    /\ pc \in Terminal
    /\ run < MaxRuns
    /\ run' = run + 1
    /\ \E a \in Argvs : FreshLocals(a)
    /\ pre' = store
    /\ prev' = Summary
    /\ UNCHANGED <<store, reachable, other>>

Next ==
    \/ ParseArgs
    \/ Extract
    \/ Chunk
    \/ Probe
    \/ AnswerStart
    \/ ListCollections
    \/ AnswerClear
    \/ DeleteCollection
    \/ CreateCollection
    \/ InitModel
    \/ Embed
    \/ Build
    \/ UpsertBatch
    \/ ReportSuccess
    \/ StartRun

Spec == Init /\ [][Next]_vars

\* The program keeps executing: whichever step is next is eventually taken.
FairSpec == Spec /\ WF_vars(Next)

---------------------------------------------------------------------------
(* A second invocation of the program that runs at the same time against
   the same collection: `prog d/a 1000 [--collection <the same name>]`. Of
   main it is the part that talks to the store, lines 110-183; the stages
   between them touch nothing shared. *)

\* The variables of the first invocation.
locals == <<reachable, run, pc, args, chunk_size, debug, collection_name,
            text, chunks, attempts, input, exists, should_create, embeddings,
            points, sent, ops, uploaded, failedAt, pre, prev>>

\* Lines 68-73 and 160-179 of the second invocation: its points, one request
\* of the batched upsert.
RivalPoints(r) ==
    LET cs == Chunks(ExtractedText(Doc), ChunkSizeArg(<<Prog, Doc, S_1000>>))
    IN  BuildPoints(0 - r, Doc, cs, Embeddings(Len(cs)))

\* Where the first invocation is while it works on the store, from its
\* listing to its report.
AtStore == {"list", "ask_clear", "delete", "create", "model", "embed", "build",
            "upsert", "uploaded"}

\* The second invocation comes to line 110 while the first is at the store
\* (started earlier, it would find a store that some Init gives as well).
RivalStart ==
    /\ other.pc \in {"idle", "done", "failed"}
    /\ other.runs < MaxRivalRuns
    /\ pc \in AtStore
    /\ other' = [other EXCEPT !.pc = "list", !.runs = @ + 1]
    /\ UNCHANGED <<store, locals>>

\* Lines 111-117.
RivalList ==
    /\ other.pc = "list"
    /\ other' = [other EXCEPT !.pc = IF store[collection_name].exists
                                     THEN "ask_clear" ELSE "create"]
    /\ UNCHANGED <<store, locals>>

\* Lines 119-128.
RivalAnswer ==
    /\ other.pc = "ask_clear"
    /\ \E line \in StdinLines :
        other' = [other EXCEPT !.pc = IF KeepsCollection(line)
                                      THEN "upsert" ELSE "delete"]
    /\ UNCHANGED <<store, locals>>

\* Lines 129-131.
RivalDelete ==
    /\ other.pc = "delete"
    /\ store' = StoreDelete(store, collection_name)
    /\ other' = [other EXCEPT !.pc = "create", !.deleted = TRUE]
    /\ UNCHANGED locals

\* Lines 135-150.
RivalCreate ==
    /\ other.pc = "create"
    /\ IF CreateAccepted(store, collection_name)
       THEN /\ store' = StoreCreate(store, collection_name)
            /\ other' = [other EXCEPT !.pc = "upsert", !.created = TRUE]
       ELSE /\ other' = [other EXCEPT !.pc = "failed", !.rejected = TRUE]
            /\ UNCHANGED store
    /\ UNCHANGED locals

\* Lines 181-183.
RivalUpsert ==
    /\ other.pc = "upsert"
    /\ LET batch == RivalPoints(other.runs)
       IN  IF UpsertAccepted(store, collection_name, batch)
           THEN /\ store' = StoreUpsert(store, collection_name, batch)
                /\ other' = [other EXCEPT !.pc = "done"]
           ELSE /\ other' = [other EXCEPT !.pc = "failed"]
                /\ UNCHANGED store
    /\ UNCHANGED locals

\* The first invocation is given the default arguments.
ConcInit ==
    /\ Init
    /\ args = <<Prog, Doc>>

NextConc ==
    \/ ParseArgs
    \/ Extract
    \/ Chunk
    \/ Probe
    \/ AnswerStart
    \/ ListCollections
    \/ AnswerClear
    \/ DeleteCollection
    \/ CreateCollection
    \/ InitModel
    \/ Embed
    \/ Build
    \/ UpsertBatch
    \/ ReportSuccess
    \/ RivalStart
    \/ RivalList
    \/ RivalAnswer
    \/ RivalDelete
    \/ RivalCreate
    \/ RivalUpsert

\* Two invocations at the same time, their steps in any order.
ConcSpec == ConcInit /\ [][NextConc]_vars

---------------------------------------------------------------------------
(* Vocabulary of the properties. *)

cn == collection_name

Range(f) == {f[i] : i \in 1..Len(f)}

\* The positions in ops of the operations of one kind.
OpsOf(kind) == {i \in 1..Len(ops) : ops[i].op = kind}

\* The operations other than listing, in the order issued.
ManagementOps == SelectSeq(ops, LAMBDA o : o.op # "list")

\* The lines that read "n" once trimmed and lowercased, and the lines that
\* explicitly ask for the collection to be cleared.
NoLines == { <<"n", "\n">>, <<" ", "N", " ", "\n">> }
ClearLines == { <<"y", "\n">> }

\* The collection was found and the operator has answered the clear prompt.
Prompted ==
    /\ exists
    /\ \/ pc \in {"delete", "create", "model", "embed", "build", "upsert",
                  "uploaded", "done"}
       \/ failedAt \in {"delete", "create", "model", "embed", "build", "upsert"}

\* C1 as stated: a delete is issued only on an explicit clear choice; on any
\* other answer to the prompt (empty, unrecognised) no delete is issued and
\* the existing points survive.
C1_Original ==
    /\ OpsOf("delete") # {} => input \in ClearLines
    /\ (Prompted /\ input \notin ClearLines) =>
            pre[cn].points \subseteq store[cn].points

\* C1 amended: a delete is issued only for a collection that exists and an
\* answer other than "n" (trimmed, lowercased); the answer "n" issues no
\* delete and the existing points survive; every other answer, the empty one
\* included, issues the delete: clearing is the default.
C1_ClearIsDefault ==
    /\ OpsOf("delete") # {} => (exists /\ input \notin NoLines)
    /\ (Prompted /\ input \in NoLines) =>
            /\ OpsOf("delete") = {}
            /\ pre[cn].points \subseteq store[cn].points
    /\ (Prompted /\ input \notin NoLines /\ pc # "delete") => OpsOf("delete") # {}

\* An empty answer has deleted a collection that held points.
C1_Witness ==
    /\ Prompted
    /\ input = <<"\n">>
    /\ pre[cn].points # {}
    /\ \E i \in OpsOf("delete") : ops[i].ok
    /\ store[cn].points \cap pre[cn].points = {}

\* C2: when the collection exists and the operator keeps it, the run issues
\* no delete and no create, the schema stays as it was, every point of before
\* the run stays, the acknowledged points are added, and after a successful
\* run all the points of the run are there.
C2_KeepPreserves ==
    (Prompted /\ input \in NoLines) =>
        /\ OpsOf("delete") = {}
        /\ OpsOf("create") = {}
        /\ store[cn].exists
        /\ store[cn].size = pre[cn].size
        /\ store[cn].distance = pre[cn].distance
        /\ pre[cn].points \subseteq store[cn].points
        /\ store[cn].points = pre[cn].points \cup Range(SubSeq(points, 1, sent))
        /\ Cardinality(store[cn].points) = Cardinality(pre[cn].points) + sent
        /\ pc \in {"uploaded", "done"} => Range(points) \subseteq store[cn].points

\* A kept collection that held a point, after a run of several batches.
C2_Witness ==
    /\ pc = "done"
    /\ Prompted
    /\ input \in NoLines
    /\ pre[cn].points # {}
    /\ Len(points) > BatchSize

\* C3: when the collection exists and the operator clears it, the run issues
\* delete, then create, then the upserts, in that order, each only after the
\* one before succeeded; after a successful run the collection has the run's
\* schema and holds exactly the points built by this run, none of before.
C3_ClearOrder ==
    (Prompted /\ input \notin NoLines) =>
        LET m == ManagementOps
        IN  /\ \A i \in 1..Len(m) :
                /\ i = 1 => m[i].op = "delete"
                /\ i = 2 => (m[i].op = "create" /\ m[1].ok)
                /\ i >= 3 => (m[i].op = "upsert" /\ m[2].ok /\ m[i - 1].ok)
            /\ pc \in {"uploaded", "done"} =>
                /\ Len(m) >= 3
                /\ store[cn].size = VectorSize
                /\ store[cn].distance = "Cosine"
                /\ store[cn].points = Range(points)
                /\ Cardinality(store[cn].points) = Len(points)
                /\ store[cn].points \cap pre[cn].points = {}

\* A cleared collection that held a point, after a run of several batches.
C3_Witness ==
    /\ pc = "done"
    /\ Prompted
    /\ input \notin NoLines
    /\ pre[cn].points # {}
    /\ Len(points) > BatchSize

---------------------------------------------------------------------------

\* The embedding engine has answered.
Embedded ==
    \/ pc \in {"build", "upsert", "uploaded", "done"}
    \/ failedAt \in {"build", "upsert"}

\* C4 as stated: when the engine answers a number of vectors other than the
\* number of chunks, point building fails and no upsert is issued; points are
\* built and upserted only when the two numbers are equal.
C4_Original ==
    /\ (Embedded /\ Len(embeddings) # Len(chunks)) =>
            /\ pc \notin {"upsert", "uploaded", "done"}
            /\ pc # "build" => failedAt = "build"
            /\ points = <<>>
    /\ OpsOf("upsert") # {} => Len(embeddings) = Len(chunks)

\* The positions in points of the points handed to the store so far.
Handed ==
    {i \in 1..Len(points) :
        \E k \in OpsOf("upsert") : ops[k].from <= i /\ i <= ops[k].to}

\* C5 as stated: every point i handed to the store has chunk number i, the
\* text of chunk i and a vector as long as the vector size configured on the
\* target collection, whether that was created, cleared or kept.
C5_Original ==
    \A i \in Handed :
        /\ points[i].payload.chunk_number = i - 1
        /\ points[i].payload.text = chunks[i]
        /\ points[i].vector.dims = store[cn].size

\* C5 amended: every point i handed to the store has chunk number i, the
\* text of chunk i and a vector of the run's size, 384; that is the vector
\* size of the target collection when the run created or cleared it, and when
\* the collection was kept only if it had been created with size 384.
C5_OrderAndRunSize ==
    \A i \in Handed :
        /\ points[i].payload.chunk_number = i - 1
        /\ points[i].payload.text = chunks[i]
        /\ points[i].vector.dims = VectorSize
        /\ should_create => points[i].vector.dims = store[cn].size
        /\ ~should_create =>
              (points[i].vector.dims = store[cn].size <=> pre[cn].size = VectorSize)

\* Points were handed to a kept collection of another vector size.
C5_Witness ==
    /\ Handed # {}
    /\ ~should_create
    /\ store[cn].size # VectorSize
    /\ \A i \in Handed : points[i].vector.dims # store[cn].size

\* The positions in points of the points the store has acknowledged.
Acked ==
    {i \in 1..Len(points) :
        \E k \in OpsOf("upsert") :
            ops[k].ok /\ ops[k].from <= i /\ i <= ops[k].to}

StageRank(stage) ==
    CASE stage = "extract" -> 1
      [] stage \in {"prompt_start", "docker", "connect"} -> 2
      [] stage = "list" -> 3
      [] stage = "prompt_clear" -> 4
      [] stage = "delete" -> 5
      [] stage = "create" -> 6
      [] stage = "model" -> 7
      [] stage = "embed" -> 8
      [] stage = "build" -> 9
      [] stage = "upsert" -> 10

\* C7: an error at any stage ends the run there and as a failure: the run is
\* at no later position, reports no success, and nothing of a later stage has
\* been executed (no later store operation, no later result); an operation
\* the store refused is the last one of the run.
C7_AbortOnError ==
    /\ failedAt # "none" =>
        /\ pc \in {"failed", "panicked"}
        /\ uploaded = NoCount
        /\ \A i \in 1..Len(ops) : StageRank(ops[i].op) <= StageRank(failedAt)
        /\ StageRank(failedAt) <= 1 => (text = NoText /\ chunks = <<>>)
        /\ StageRank(failedAt) <= 8 => embeddings = <<>>
        /\ StageRank(failedAt) <= 9 => points = <<>>
    /\ \A i \in 1..Len(ops) :
        ~ops[i].ok => (i = Len(ops) /\ failedAt = ops[i].op /\ pc = "failed")
    /\ pc \in {"uploaded", "done"} => failedAt = "none"

\* The run cleared the collection and then failed to create it again.
C7_Witness ==
    /\ pc = "failed"
    /\ failedAt = "create"
    /\ \E i \in OpsOf("delete") : ops[i].ok

---------------------------------------------------------------------------

C9_Original ==
    (/\ prev.done
     /\ prev.args = <<Prog, Doc>>
     /\ args = <<Prog, Doc, S_x>>
     /\ pc # "start") =>
        (pc # "rejected" /\ chunk_size = prev.chunk_size)

\* The points of a collection that come from the file named f, and what a
\* point says about its chunk.
DocPoints(c, f) == {p \in c.points : p.payload.file_name = f}
Triple(p) == <<p.payload.file_name, p.payload.chunk_number, p.payload.text>>

\* C10 as stated: after the same document has been ingested a second time
\* into the same collection with the same chunk size (every chunk embedded in
\* both runs), the stored (file name, chunk number, text) triples of the
\* document are those stored after the first run and none is stored twice,
\* whether the second run kept or cleared the collection.
C10_Original ==
    (/\ pc = "done"
     /\ prev.done
     /\ prev.args[2] = args[2]
     /\ prev.name = cn
     /\ prev.chunk_size = chunk_size
     /\ prev.points = prev.chunks
     /\ Len(points) = Len(chunks)) =>
        LET f == FileNameOf(args[2])
            now == DocPoints(store[cn], f)
            before == DocPoints(pre[cn], f)
        IN  /\ {Triple(p) : p \in now} = {Triple(p) : p \in before}
            /\ Cardinality(now) = Cardinality({Triple(p) : p \in now})

---------------------------------------------------------------------------

\* The collection as create_collection of lines 138-148 makes it.
FreshCollection ==
    [exists |-> TRUE, size |-> VectorSize, distance |-> "Cosine", points |-> {}]

\* C11: whenever a run has provisioned the collection by creating it (the
\* collection was absent, or was there and was cleared), the collection
\* exists with vector size 384, cosine distance and no points, until the run
\* writes its first point; so it is after a second provisioning that follows
\* a first one, whatever the collection was before the first.
C11_ProvisionTwice ==
    (should_create /\ pc \in {"model", "embed", "build"}) =>
        store[cn] = FreshCollection

\* The first run has created a collection that was absent and filled it; the
\* second run has just cleared it.
C11_Witness ==
    /\ run = 2
    /\ prev.done
    /\ prev.name = cn
    /\ cn = S_c
    /\ prev.points > 0
    /\ Cardinality(pre[cn].points) = prev.points
    /\ exists
    /\ should_create
    /\ pc = "model"
    /\ store[cn] = FreshCollection

\* The run has passed the provisioning of the collection.
Provisioned == pc \in {"model", "embed", "build", "upsert", "uploaded", "done"}

\* C12: the collection is provisioned before the first point is written: an
\* upsert is issued only to a collection that exists, after the create has
\* succeeded when the run creates it; a collection that was absent has
\* vector size 384 and cosine distance from then on; and an upsert of N
\* points that succeeds has N acknowledged points, all stored.
C12_ProvisionedBeforeWrite ==
    /\ \A k \in OpsOf("upsert") :
        /\ store[cn].exists
        /\ should_create => \E j \in OpsOf("create") : j < k /\ ops[j].ok
        /\ ~should_create => exists
    /\ Provisioned => store[cn].exists
    /\ (Provisioned /\ ~exists) =>
        /\ store[cn].size = VectorSize
        /\ store[cn].distance = "Cosine"
        /\ \E j \in OpsOf("create") : ops[j].ok
    /\ pc \in {"uploaded", "done"} =>
        /\ sent = Len(points)
        /\ Acked = 1..Len(points)
        /\ Range(points) \subseteq store[cn].points
        /\ should_create => Cardinality(store[cn].points) = Len(points)

\* The collection was absent, was created, and took several batches.
C12_Witness ==
    /\ pc = "done"
    /\ ~exists
    /\ ~pre[cn].exists
    /\ Len(points) > BatchSize
    /\ Cardinality(store[cn].points) = Len(points)

\* C13: a batch the store rejects is the last operation of the run: no batch
\* follows it and it is not sent again; the run has failed there, and the
\* points of the batches acknowledged before it are still in the collection.
C13_NoRetryNoRollback ==
    \A k \in OpsOf("upsert") :
        ~ops[k].ok =>
            /\ k = Len(ops)
            /\ pc = "failed"
            /\ failedAt = "upsert"
            /\ sent = ops[k].from - 1
            /\ \A j \in OpsOf("upsert") :
                j < k => (ops[j].ok /\ ops[j].to < ops[k].from)
            /\ \A i \in Acked : points[i] \in store[cn].points

\* The second batch was rejected; the first stays stored.
C13_Witness ==
    /\ failedAt = "upsert"
    /\ sent = BatchSize
    /\ Len(points) > 2 * BatchSize
    /\ Cardinality(store[cn].points \cap Range(points)) = BatchSize

---------------------------------------------------------------------------

\* An argument list without its --debug arguments.
WithoutDebug(a) == SelectSeq(a, LAMBDA x : x # S_debug)

\* C14 as stated: two invocations whose arguments differ only by --debug,
\* wherever it stands, are both accepted or both rejected and use the same
\* chunk-size budget and the same collection name.
C14_Original ==
    (/\ prev.done
     /\ WithoutDebug(args) = WithoutDebug(prev.args)
     /\ pc # "start") =>
        /\ pc # "rejected"
        /\ chunk_size = prev.chunk_size
        /\ cn = prev.name

\* C15 as stated: a count is reported only after every batch of the upsert
\* was acknowledged, and it is the number of points written, which is the
\* number of chunks the chunker produced.
C15_Original ==
    uploaded # NoCount =>
        /\ pc \in {"uploaded", "done"}
        /\ Acked = 1..Len(points)
        /\ Range(points) \subseteq store[cn].points
        /\ uploaded = Len(points)
        /\ uploaded = Len(chunks)

\* C17: once the delete of a clear has succeeded, none of the points the
\* collection held before the run is in it again, however the run goes on:
\* when the create then fails the collection is absent, and when the model
\* initialisation, the embedding, the point building or the upsert fails the
\* collection exists and holds nothing but points of this run.
C17_ClearNotCompensated ==
    (exists /\ \E i \in OpsOf("delete") : ops[i].ok) =>
        /\ pre[cn].points \cap store[cn].points = {}
        /\ pc = "create" => ~store[cn].exists
        /\ failedAt = "create" => ~store[cn].exists
        /\ failedAt \in {"model", "embed", "build", "upsert"} =>
            /\ store[cn].exists
            /\ store[cn].points = Range(SubSeq(points, 1, sent))

\* A collection that held a point was cleared, and the embedding failed: the
\* collection is there and empty.
C17_Witness ==
    /\ pc = "failed"
    /\ failedAt = "embed"
    /\ exists
    /\ pre[cn].points # {}
    /\ \E i \in OpsOf("delete") : ops[i].ok
    /\ store[cn].exists
    /\ store[cn].points = {}

\* The positions of the --collection arguments that the scan of lines 21-38
\* reads as the flag (the argument after a flag is its name, and skipped).
RECURSIVE FlagPositions(_, _)
FlagPositions(a, i) ==
    IF i > Len(a) THEN {}
    ELSE IF a[i] = S_collection /\ i + 1 <= Len(a)
         THEN {i} \cup FlagPositions(a, i + 2)
         ELSE FlagPositions(a, i + 1)

\* The argument count is outside 2..6, or a --collection flag has the empty
\* name.
BadConfiguration ==
    \/ Len(args) < 2
    \/ Len(args) > 6
    \/ \E i \in FlagPositions(args, 1) : args[i + 1] = <<>>

\* C18: a run with a bad configuration is rejected, and a rejected run has
\* extracted nothing, has not contacted the store, has embedded nothing and
\* has written nothing; every store operation of a run names a collection
\* with a non-empty name.
C18_RejectedNoEffects ==
    /\ (BadConfiguration /\ pc # "start") => pc = "rejected"
    /\ pc = "rejected" =>
        /\ text = NoText
        /\ chunks = <<>>
        /\ attempts = 0
        /\ ops = <<>>
        /\ store = pre
        /\ embeddings = <<>>
        /\ points = <<>>
        /\ sent = 0
        /\ uploaded = NoCount
        /\ failedAt = "none"
    /\ \A i \in 1..Len(ops) : ops[i].name # <<>>
    /\ pc \notin {"start", "rejected"} => cn # <<>>

\* A run given --collection with the empty name was rejected; the default
\* collection holds its points as before.
C18_Witness ==
    /\ pc = "rejected"
    /\ Len(args) >= 2
    /\ Len(args) <= 6
    /\ \E i \in FlagPositions(args, 1) : args[i + 1] = <<>>
    /\ pre[S_test].points # {}
    /\ store = pre

---------------------------------------------------------------------------

\* The acknowledged points of the first invocation that the collection does
\* not hold.
LostAcked == {i \in Acked : points[i] \notin store[cn].points}

\* C16: two invocations on one collection take their create/clear decisions
\* on what they listed, with nothing to keep the other out in between. Points
\* acknowledged to the first are missing from the collection only after a
\* delete of the second; a create of the second is rejected only after the
\* first has created the collection in between; and when the first has seen
\* the collection absent and finds it there at its create, the second has
\* created it.
C16_RaceOnCreateClear ==
    /\ LostAcked # {} => other.deleted
    /\ other.rejected => \E k \in OpsOf("create") : ops[k].ok
    /\ (pc = "create" /\ ~exists /\ store[cn].exists) => other.created

\* Both races in one execution: both invocations saw the collection absent,
\* the first created it and the create of the second was rejected; the second
\* was started again, chose to clear, and its delete has removed the batch
\* acknowledged to the first, which is still uploading.
C16_Witness ==
    /\ ~exists
    /\ ~pre[cn].exists
    /\ \E k \in OpsOf("create") : ops[k].ok
    /\ other.rejected
    /\ other.deleted
    /\ pc = "upsert"
    /\ sent = BatchSize
    /\ LostAcked = 1..BatchSize

====
